---------------------------- MODULE Spec2Model ----------------------------
(***************************************************************************)
(* A model of rd3dgui.py, the GUI front end that prepares the input file   *)
(* of the RADDOSE-3D simulator, runs it and shows its results.             *)
(*                                                                         *)
(* Three specifications share the module:                                  *)
(*   SpecPatch   rd3d_replaceLine applied to arbitrary small files         *)
(*   SpecDerive  the parameter derivation of fmx_dose4                     *)
(*   Spec        a GUI session: Calculate clicks driving rd3d_calc4        *)
(***************************************************************************)
EXTENDS Integers, Sequences, FiniteSets, TLC

VARIABLES
    file,       \* SpecPatch: raw content of the file being patched
    linesep,    \* os.linesep of the platform the program runs on
    call,       \* SpecPatch: the last rd3d_replaceLine call and its outcome
    values,     \* the keyword arguments on_calc_button_clicked hands to fmx_dose4
    epics,      \* the live-flux source as get_flux_at_sample finds it
    derived,    \* what fmx_dose4 computed: the arguments of rd3d_calc4, or an exception
    pc,         \* where the GUI thread is: "idle" in the event loop, or inside the handler
    pending,    \* Calculate clicks waiting in the event queue
    clicks,     \* Calculate clicks made so far
    disk,       \* the working directory rd3d_work and its files
    gui,        \* what the window shows: result_value, log_content, the histogram
    run,        \* the run of the handler invocation under way or last ended
    handled,    \* the last handler invocation: its number and the field texts it read
    active,     \* runs between the copy of the template and the reading of the output
    escaped,    \* the exception that left the last handler invocation, if any
    parse       \* SpecParse: a summary text and what rd3d_parse_dose_histogram made of it

patchVars == <<file, call>>
deriveVars == <<values, epics, derived>>
sessionVars == <<pc, pending, clicks, disk, gui, run, handled, active, escaped>>
parseVars == <<parse>>
vars == <<file, linesep, call, values, epics, derived,
          pc, pending, clicks, disk, gui, run, handled, active, escaped, parse>>

(***************************************************************************)
(* Text files.  A file is a sequence of characters; LF and CR are the two  *)
(* line-break characters Python's text mode knows.                         *)
(***************************************************************************)
LF == "\n"
CR == "\r"

\* os.linesep: "\n" on POSIX, "\r\n" on Windows
LineSeps == { <<LF>>, <<CR, LF>> }

Indices(s) == [i \in 1..Len(s) |-> i]

\* open(file, 'r'): universal newlines, "\r\n" and a lone "\r" are read as "\n"
DecodeNewlines(raw) ==
    LET kept == SelectSeq(Indices(raw),
                          LAMBDA i : ~(raw[i] = LF /\ i > 1 /\ raw[i - 1] = CR))
    IN  [k \in 1..Len(kept) |-> IF raw[kept[k]] = CR THEN LF ELSE raw[kept[k]]]

RECURSIVE EncodeNewlines(_, _)
\* f.write(text) on a file opened with 'w': every "\n" is written as os.linesep
EncodeNewlines(text, sep) ==
    IF text = <<>> THEN <<>>
    ELSE (IF Head(text) = LF THEN sep ELSE <<Head(text)>>)
         \o EncodeNewlines(Tail(text), sep)

\* index of the first "\n" of text, 0 when there is none
FirstLF(text) ==
    IF \E i \in 1..Len(text) : text[i] = LF
    THEN CHOOSE i \in 1..Len(text) :
            text[i] = LF /\ \A j \in 1..(i - 1) : text[j] # LF
    ELSE 0

\* the lines of a text, each with its "\n" (the last one may lack it)
SplitLines(text) ==
    LET breaks == SelectSeq(Indices(text), LAMBDA i : text[i] = LF)
        ends   == IF text # <<>> /\ text[Len(text)] # LF
                  THEN Append(breaks, Len(text)) ELSE breaks
    IN  [k \in 1..Len(ends) |->
            SubSeq(text, IF k = 1 THEN 1 ELSE ends[k - 1] + 1, ends[k])]

\* f.readlines() of a file opened in text mode
readlines(raw) == SplitLines(DecodeNewlines(raw))

\* str.startswith
startswith(line, prefix) ==
    /\ Len(prefix) <= Len(line)
    /\ SubSeq(line, 1, Len(prefix)) = prefix

RECURSIVE Flatten(_)
Flatten(lines) ==
    IF lines = <<>> THEN <<>> ELSE Head(lines) \o Flatten(Tail(lines))

\* the successive f.write(line) calls on a file opened with 'w'
writelines(lines, sep) ==
    Flatten([i \in 1..Len(lines) |-> EncodeNewlines(lines[i], sep)])

NoError == [type |-> "none", msg |-> <<>>]

\* the ValueError of line 105; its message quotes searchExp twice
KeywordNotFound(searchExp) ==
    [type |-> "ValueError",
     msg  |-> <<"'">> \o searchExp
              \o <<"' not found in the template file. Please use a template file that contains a line with '">>
              \o searchExp \o <<"'">>]

\* mutant: stops replacing after the first matching line
rd3d_replaceLine_firstOnly(raw, searchExp, replaceExp, sep) ==
    LET lines == readlines(raw)
        hits  == {i \in 1..Len(lines) : startswith(lines[i], searchExp)}
        first == IF hits = {} THEN 0
                 ELSE CHOOSE i \in hits : \A j \in hits : i <= j
        out   == [i \in 1..Len(lines) |-> IF i = first THEN replaceExp ELSE lines[i]]
    IN  [content |-> writelines(out, sep),
         raised  |-> IF hits # {} THEN NoError ELSE KeywordNotFound(searchExp)]

\* mutant: writes only the lines it replaced
rd3d_replaceLine_dropOthers(raw, searchExp, replaceExp, sep) ==
    LET lines == readlines(raw)
        hits  == {i \in 1..Len(lines) : startswith(lines[i], searchExp)}
        out   == [i \in 1..Len(lines) |-> IF i \in hits THEN replaceExp ELSE <<>>]
    IN  [content |-> writelines(out, sep),
         raised  |-> IF hits # {} THEN NoError ELSE KeywordNotFound(searchExp)]

\* rd3d_replaceLine(file, searchExp, replaceExp): the file's content after the
\* call and the exception the call raised (NoError when it returned)
rd3d_replaceLine(raw, searchExp, replaceExp, sep) ==
    LET lines == readlines(raw)
        out   == [i \in 1..Len(lines) |->
                    IF startswith(lines[i], searchExp) THEN replaceExp ELSE lines[i]]
        found == \E i \in 1..Len(lines) : startswith(lines[i], searchExp)
    IN  [content |-> writelines(out, sep),
         raised  |-> IF found THEN NoError ELSE KeywordNotFound(searchExp)]

(***************************************************************************)
(* Numbers.  Python floats are IEEE-754 doubles.  The values a user types  *)
(* are modelled as dyadic numbers n / 2^k with a small n, which a double   *)
(* holds exactly, and so are their sums, negations and small products.  A  *)
(* quotient is in general not exact: it is a Double, the 53 bits of its    *)
(* rounded mantissa and the exponent of the leading bit.                   *)
(***************************************************************************)
MantBits == 53

Abs(n) == IF n < 0 THEN -n ELSE n

RECURSIVE Norm(_)
\* n / 2^k in lowest terms
Norm(x) ==
    IF x.n = 0 THEN [n |-> 0, k |-> 0]
    ELSE IF x.k > 0 /\ x.n % 2 = 0 THEN Norm([n |-> x.n \div 2, k |-> x.k - 1])
    ELSE x

Num(n, k) == Norm([n |-> n, k |-> k])

NumAdd(x, y) ==
    LET k == IF x.k > y.k THEN x.k ELSE y.k
    IN  Num(x.n * 2^(k - x.k) + y.n * 2^(k - y.k), k)

NumNeg(x) == Num(-x.n, x.k)
NumMul(x, y) == Num(x.n * y.n, x.k + y.k)
NumHalf(x) == Num(x.n, x.k + 1)
NumLess(x, y) == x.n * 2^(y.k) < y.n * 2^(x.k)

RECURSIVE BitLen(_)
BitLen(n) == IF n = 0 THEN 0 ELSE 1 + BitLen(n \div 2)

RECURSIVE NatBits(_)
\* the binary digits of n, most significant first
NatBits(n) == IF n = 0 THEN <<>> ELSE NatBits(n \div 2) \o <<n % 2>>

Zeros(len) == [i \in 1..len |-> 0]
Reverse(s) == [i \in 1..Len(s) |-> s[Len(s) + 1 - i]]

DZero == [neg |-> FALSE, bits |-> <<>>, exp |-> 0]

RECURSIVE Incr(_)
\* bits + 1 on the same number of digits; all ones wrap to all zeros
Incr(bits) ==
    IF bits = <<>> THEN <<>>
    ELSE LET n == Len(bits)
         IN  IF bits[n] = 0 THEN SubSeq(bits, 1, n - 1) \o <<1>>
             ELSE Incr(SubSeq(bits, 1, n - 1)) \o <<0>>

RECURSIVE Decr(_)
\* bits - 1 on the same number of digits, bits not all zero
Decr(bits) ==
    LET n == Len(bits)
    IN  IF bits[n] = 1 THEN SubSeq(bits, 1, n - 1) \o <<0>>
        ELSE Decr(SubSeq(bits, 1, n - 1)) \o <<1>>

\* the binary number 1.b2b3... * 2^exp rounded to a double (round half to even)
RoundBits(neg, bits, exp) ==
    IF Len(bits) <= MantBits
    THEN [neg |-> neg, bits |-> bits \o Zeros(MantBits - Len(bits)), exp |-> exp]
    ELSE LET head   == SubSeq(bits, 1, MantBits)
             guard  == bits[MantBits + 1]
             sticky == \E i \in (MantBits + 2)..Len(bits) : bits[i] = 1
             up     == guard = 1 /\ (sticky \/ head[MantBits] = 1)
             inc    == Incr(head)
         IN  IF ~up THEN [neg |-> neg, bits |-> head, exp |-> exp]
             ELSE IF inc[1] = 0
                  THEN [neg |-> neg, bits |-> <<1>> \o Zeros(MantBits - 1), exp |-> exp + 1]
                  ELSE [neg |-> neg, bits |-> inc, exp |-> exp]

\* the double that holds a dyadic number
ToDouble(x) ==
    IF x.n = 0 THEN DZero
    ELSE RoundBits(x.n < 0, NatBits(Abs(x.n)), BitLen(Abs(x.n)) - 1 - x.k)

RECURSIVE QuotBits(_, _, _)
\* the next count binary digits of rem / den (rem < den), then a sticky digit
QuotBits(rem, den, count) ==
    IF count = 0 THEN (IF rem = 0 THEN <<>> ELSE <<1>>)
    ELSE IF 2 * rem >= den
         THEN <<1>> \o QuotBits(2 * rem - den, den, count - 1)
         ELSE <<0>> \o QuotBits(2 * rem, den, count - 1)

\* the float division a / b of two dyadic numbers, b # 0
FDiv(a, b) ==
    IF a.n = 0 THEN DZero
    ELSE LET A  == Abs(a.n)
             B  == Abs(b.n)
             la == BitLen(A)
             lb == BitLen(B)
             A1 == IF la < lb THEN A * 2^(lb - la) ELSE A
             B1 == IF lb < la THEN B * 2^(la - lb) ELSE B
             lo == A1 < B1
             A2 == IF lo THEN 2 * A1 ELSE A1
             e  == (la - lb) - (IF lo THEN 1 ELSE 0) - a.k + b.k
         IN  RoundBits((a.n < 0) # (b.n < 0),
                       <<1>> \o QuotBits(A2 - B1, B1, MantBits), e)

RECURSIVE MulRev(_, _, _)
\* digits (least significant first) times c, plus carry
MulRev(rev, c, carry) ==
    IF rev = <<>> THEN (IF carry = 0 THEN <<>> ELSE MulRev(<<0>>, c, carry))
    ELSE LET t == Head(rev) * c + carry
         IN  <<t % 2>> \o MulRev(Tail(rev), c, t \div 2)

\* the float product d * b of a double and a dyadic number
FMul(d, b) ==
    IF d = DZero \/ b.n = 0 THEN DZero
    ELSE LET prod == Reverse(MulRev(Reverse(d.bits), Abs(b.n), 0))
         IN  RoundBits(d.neg # (b.n < 0), prod,
                       d.exp + (Len(prod) - MantBits) - b.k)

\* the doubles next to a non-zero double d, away from and towards zero
NextAway(d) ==
    LET inc == Incr(d.bits)
    IN  IF inc[1] = 0
        THEN [neg |-> d.neg, bits |-> <<1>> \o Zeros(MantBits - 1), exp |-> d.exp + 1]
        ELSE [neg |-> d.neg, bits |-> inc, exp |-> d.exp]

NextToZero(d) ==
    IF d.bits = <<1>> \o Zeros(MantBits - 1)
    THEN [neg |-> d.neg, bits |-> [i \in 1..MantBits |-> 1], exp |-> d.exp - 1]
    ELSE [neg |-> d.neg, bits |-> Decr(d.bits), exp |-> d.exp]

(***************************************************************************)
(* fmx_dose4: from the user's collection parameters to the arguments of    *)
(* rd3d_calc4.                                                             *)
(***************************************************************************)
MinusOne == Num(-1, 0)

ZeroDivisionError == [type |-> "ZeroDivisionError", msg |-> <<"float division by zero">>]
TypeError == [type |-> "TypeError",
              msg |-> <<"unsupported format string passed to NoneType.__format__">>]

\* the states of the live-flux source: the epics module is not loaded, caget
\* returns a value, caget raises, caget returns None (its answer on a timeout)
EpicsStates == {"absent", "value", "raises", "none"}

NoValue == [none |-> TRUE]
LiveFlux == Num(5, 0)
FallbackFlux == Num(1, 10)      \* stands for the 1e-3 of lines 286 and 289

\* get_flux_at_sample()
get_flux_at_sample(src) ==
    CASE src = "absent" -> FallbackFlux
      [] src = "raises" -> FallbackFlux
      [] src = "value"  -> LiveFlux
      [] src = "none"   -> NoValue

\* mutant: a tier is chosen only when both axes are below its threshold
PixelsPerMicron_bothBelow(fwhmX, fwhmY) ==
    IF NumLess(fwhmX, Num(3, 1)) /\ NumLess(fwhmY, Num(3, 1)) THEN Num(2, 0)
    ELSE IF NumLess(fwhmX, Num(3, 0)) /\ NumLess(fwhmY, Num(3, 0)) THEN Num(1, 0)
    ELSE Num(1, 1)

\* the if / elif / else of lines 391-396
PixelsPerMicron(fwhmX, fwhmY) ==
    IF NumLess(fwhmX, Num(3, 1)) \/ NumLess(fwhmY, Num(3, 1)) THEN Num(2, 0)
    ELSE IF NumLess(fwhmX, Num(3, 0)) \/ NumLess(fwhmY, Num(3, 0)) THEN Num(1, 0)
    ELSE Num(1, 1)

NoArgs == [none |-> TRUE]

\* mutant: with xtalSizeB = -1 the beam-axis dimension is the beam size
Rd3dArgs_dimZFromBeam(v, fluxSample, translatePerDegY) ==
    [flux |-> fluxSample,
     energy |-> v.energy,
     beamType |-> "GAUSSIAN",
     fwhmX |-> v.beamsizeV,
     fwhmY |-> v.beamsizeH,
     collimationX |-> NumMul(Num(3, 0), v.beamsizeV),
     collimationY |-> NumMul(Num(3, 0), v.beamsizeH),
     wedge |-> v.oscRange,
     exposureTime |-> FDiv(NumMul(v.exposureTimeFrame, v.oscRange), v.oscWidth),
     translatePerDegX |-> Num(0, 0),
     translatePerDegY |-> translatePerDegY,
     translatePerDegZ |-> Num(0, 0),
     startOffsetX |-> Num(0, 0),
     startOffsetY |-> NumHalf(NumNeg(v.vectorL)),
     startOffsetZ |-> Num(0, 0),
     dimX |-> IF v.xtalSizeV = MinusOne THEN v.beamsizeV ELSE v.xtalSizeV,
     dimY |-> NumAdd(v.vectorL, v.beamsizeH),
     dimZ |-> IF v.xtalSizeB = MinusOne THEN v.beamsizeV ELSE v.xtalSizeB,
     pixelsPerMicron |-> PixelsPerMicron(v.beamsizeV, v.beamsizeH),
     angularResolution |-> Num(2, 0),
     pdb |-> v.pdb,
     templateFileName |-> v.templateFileName,
     verbose |-> v.verbose]

\* the keyword arguments fmx_dose4 passes to rd3d_calc4 (lines 424-436); the
\* arguments it leaves out take the defaults of lines 147-157
Rd3dArgs(v, fluxSample, translatePerDegY) ==
    [flux |-> fluxSample,
     energy |-> v.energy,
     beamType |-> "GAUSSIAN",
     fwhmX |-> v.beamsizeV,
     fwhmY |-> v.beamsizeH,
     collimationX |-> NumMul(Num(3, 0), v.beamsizeV),
     collimationY |-> NumMul(Num(3, 0), v.beamsizeH),
     wedge |-> v.oscRange,
     exposureTime |-> FDiv(NumMul(v.exposureTimeFrame, v.oscRange), v.oscWidth),
     translatePerDegX |-> Num(0, 0),
     translatePerDegY |-> translatePerDegY,
     translatePerDegZ |-> Num(0, 0),
     startOffsetX |-> Num(0, 0),
     startOffsetY |-> NumHalf(NumNeg(v.vectorL)),
     startOffsetZ |-> Num(0, 0),
     dimX |-> IF v.xtalSizeV = MinusOne THEN v.beamsizeV ELSE v.xtalSizeV,
     dimY |-> NumAdd(v.vectorL, v.beamsizeH),
     dimZ |-> IF v.xtalSizeB = MinusOne
              THEN (IF v.xtalSizeV = MinusOne THEN v.beamsizeV ELSE v.xtalSizeV)
              ELSE v.xtalSizeB,
     pixelsPerMicron |-> PixelsPerMicron(v.beamsizeV, v.beamsizeH),
     angularResolution |-> Num(2, 0),
     pdb |-> v.pdb,
     templateFileName |-> v.templateFileName,
     verbose |-> v.verbose]

\* mutant: the vector length divided by the width of one frame
fmx_dose4_perFrame(v, src) ==
    LET fluxSample == IF v.flux = MinusOne THEN get_flux_at_sample(src) ELSE v.flux
    IN  IF fluxSample = NoValue THEN [raised |-> TypeError, args |-> NoArgs]
        ELSE IF v.oscRange.n = 0 \/ v.oscWidth.n = 0
        THEN [raised |-> ZeroDivisionError, args |-> NoArgs]
        ELSE [raised |-> NoError,
              args |-> Rd3dArgs(v, fluxSample, FDiv(v.vectorL, v.oscWidth))]

\* fmx_dose4 up to its call of rd3d_calc4: the exception it raises on the way,
\* or the arguments of the call
fmx_dose4(v, src) ==
    LET fluxSample == IF v.flux = MinusOne THEN get_flux_at_sample(src) ELSE v.flux
    IN  IF fluxSample = NoValue             \* line 402 formats None with .4g
        THEN [raised |-> TypeError, args |-> NoArgs]
        ELSE IF v.oscRange.n = 0            \* line 407
        THEN [raised |-> ZeroDivisionError, args |-> NoArgs]
        ELSE IF v.oscWidth.n = 0            \* line 411
        THEN [raised |-> ZeroDivisionError, args |-> NoArgs]
        ELSE [raised |-> NoError,
              args |-> Rd3dArgs(v, fluxSample, FDiv(v.vectorL, v.oscRange))]

NoValues == [none |-> TRUE]

NotDerived == [raised |-> NoError, args |-> NoArgs]

DeriveIdle ==
    /\ values = NoValues
    /\ epics = "absent"
    /\ derived = NotDerived


(***************************************************************************)
(* The input fields of the main window and their validation               *)
(* (on_calc_button_clicked, lines 725-750).  A text is a sequence of       *)
(* characters.                                                             *)
(***************************************************************************)
\* func_args, in the order the handler walks them (lines 633-634, 727-728)
FieldOrder == <<"flux", "energy", "beamsizeV", "beamsizeH", "xtalSizeV", "xtalSizeB",
                "oscRange", "oscWidth", "exposureTimeFrame", "vectorL">>

NumericFields == {FieldOrder[i] : i \in 1..Len(FieldOrder)}

Digits == {"0", "1", "2", "3", "4", "5", "6", "7", "8", "9"}

DigitVal(c) == CHOOSE d \in 0..9 : ToString(d) = c

RECURSIVE lstrip(_)
lstrip(s) == IF s # <<>> /\ Head(s) = " " THEN lstrip(Tail(s)) ELSE s

\* str.strip()
strip(s) == Reverse(lstrip(Reverse(lstrip(s))))

RECURSIVE DecimalValue(_)
DecimalValue(digits) ==
    IF digits = <<>> THEN 0
    ELSE 10 * DecimalValue(SubSeq(digits, 1, Len(digits) - 1)) + DigitVal(digits[Len(digits)])

\* a parsed value no dyadic number holds; none of the enumerated inputs is one
Inexact == [n |-> 0, k |-> -1]

\* float(s) for the decimal literals [sign] digits [. digits] (the exponent,
\* inf, nan and digit-grouping forms are not among the enumerated inputs):
\* ok is FALSE where float raises ValueError
ParseFloat(s) ==
    LET signed == s # <<>> /\ Head(s) \in {"+", "-"}
        body   == IF signed THEN Tail(s) ELSE s
        dots   == {i \in 1..Len(body) : body[i] = "."}
        ok     == /\ \A i \in 1..Len(body) : body[i] \in Digits \cup {"."}
                  /\ Cardinality(dots) <= 1
                  /\ \E i \in 1..Len(body) : body[i] \in Digits
        d      == IF dots = {} THEN 0 ELSE Len(body) - (CHOOSE i \in dots : TRUE)
        n      == DecimalValue(SelectSeq(body, LAMBDA c : c \in Digits))
        sn     == IF signed /\ Head(s) = "-" THEN -n ELSE n
    IN  IF ~ok THEN [ok |-> FALSE, value |-> Inexact]
        ELSE [ok |-> TRUE,
              value |-> IF n % (5^d) = 0 THEN Num((sn * 2^d) \div (10^d), d) ELSE Inexact]

FieldEmpty(text) == strip(text) = <<>>
FieldParses(text) == ParseFloat(strip(text)).ok

\* the numeric fields the loop of lines 727-737 rejects
BadFields(texts) ==
    {i \in 1..Len(FieldOrder) :
        FieldEmpty(texts[FieldOrder[i]]) \/ ~FieldParses(texts[FieldOrder[i]])}

\* mutant: validates the 'Beam' group only
Validate_beamOnly(texts) ==
    LET bad   == {i \in BadFields(texts) : i <= 6}
        first == IF bad = {} THEN 0 ELSE CHOOSE i \in bad : \A j \in bad : i <= j
        arg   == FieldOrder[first]
        val(f) == IF ParseFloat(strip(texts[f])).ok
                  THEN ParseFloat(strip(texts[f])).value ELSE Num(1, 0)
    IN  IF first # 0
        THEN [error |-> IF FieldEmpty(texts[arg])
                        THEN <<"Error: ", arg, " field is empty.">>
                        ELSE <<"Error: Invalid input in ", arg, " field.">>,
              values |-> NoValues]
        ELSE [error |-> <<>>,
              values |-> [f \in DOMAIN texts |->
                            IF f \in NumericFields THEN val(f)
                            ELSE IF f = "verbose" THEN texts[f] = <<"True">>
                            ELSE strip(texts[f])]]

\* lines 726-750: the message of the first rejected field, or the keyword
\* arguments for fmx_dose4
Validate(texts) ==
    LET bad   == BadFields(texts)
        first == IF bad = {} THEN 0 ELSE CHOOSE i \in bad : \A j \in bad : i <= j
        arg   == FieldOrder[first]
    IN  IF first # 0
        THEN [error |-> IF FieldEmpty(texts[arg])
                        THEN <<"Error: ", arg, " field is empty.">>
                        ELSE <<"Error: Invalid input in ", arg, " field.">>,
              values |-> NoValues]
        ELSE [error |-> <<>>,
              values |-> [f \in DOMAIN texts |->
                            IF f \in NumericFields THEN ParseFloat(strip(texts[f])).value
                            ELSE IF f = "verbose" THEN texts[f] = <<"True">>
                            ELSE strip(texts[f])]]

(***************************************************************************)
(* Paths and the files of the installation (rd3d_paths, lines 61-88).  A   *)
(* path is a sequence of path components and separators.                   *)
(***************************************************************************)
BinDir == <<"/", "app", "/", "rd3d_bin">>

\* os.path.join(dir, name): an absolute name replaces dir
join(dir, name) ==
    IF name # <<>> /\ Head(name) = "/" THEN name ELSE dir \o <<"/">> \o name

\* str.endswith
endswith(s, suffix) ==
    /\ Len(suffix) <= Len(s)
    /\ SubSeq(s, Len(s) - Len(suffix) + 1, Len(s)) = suffix

DefaultPdb == join(BinDir, <<"2vb1", ".pdb">>)

\* the structure files on the machine, and those among them that open
ExistingPdbFiles == { DefaultPdb, <<"/", "home", "/", "own", ".pdb">>,
                      join(BinDir, <<"locked", ".pdb">>) }
OpenablePdbFiles == { DefaultPdb, <<"/", "home", "/", "own", ".pdb">> }

\* verify_pdb_file(file_path)
verify_pdb_file(file_path) ==
    /\ endswith(file_path, <<".pdb">>)
    /\ file_path \in ExistingPdbFiles
    /\ file_path \in OpenablePdbFiles

\* what requests.get meets: the registry answers 200 or 404, or it cannot be reached
NetOutcomes == {"200", "404", "unreachable"}

ConnectionError == [type |-> "ConnectionError", msg |-> <<"Max retries exceeded">>]

\* verify_pdb_code(pdb_code): requests.get has no try around it, its
\* exception leaves the function
verify_pdb_code(pdb_code, net) ==
    IF net = "unreachable" THEN [raised |-> ConnectionError, exists |-> FALSE]
    ELSE [raised |-> NoError, exists |-> net = "200"]

Absent == <<"<absent>">>

\* the template files the bin directory holds: the bundled one, one without
\* a PDB line, one with Windows line breaks and two FLUX lines
BundledTemplate ==
    <<"Crystal", LF, "TYPE", " ", "CUBOID", LF, "DIMENSION", " ", "20", LF,
      "PIXELSPERMICRON", " ", "2", LF, "ANGULARRESOLUTION", " ", "2", LF,
      "PDB", " ", "2vb1", ".pdb", LF, "STARTOFFSET", " ", "0", LF,
      "Beam", LF, "TYPE", " ", "GAUSSIAN", LF, "FLUX", " ", "0", LF,
      "FWHM", " ", "0", LF, "ENERGY", " ", "0", LF, "COLLIMATION", " ", "0", LF,
      "Wedge", LF, "WEDGE", " ", "0", LF, "EXPOSURETIME", " ", "0", LF,
      "TRANSLATEPERDEGREE", " ", "0", LF>>

TemplateContent(name) ==
    CASE name = <<"rd3d_input_template.txt">> -> BundledTemplate
      [] name = <<"no_pdb_line.txt">> ->
            SelectSeq(BundledTemplate, LAMBDA c : c \notin {"PDB", "2vb1", ".pdb"})
      [] name = <<"two_beams.txt">> ->
            EncodeNewlines(BundledTemplate \o <<"FLUX", " ", "1", LF>>, <<CR, LF>>)
      [] OTHER -> Absent

FileNotFoundError(path) ==
    [type |-> "FileNotFoundError", msg |-> <<"No such file or directory: ">> \o path]

(***************************************************************************)
(* rd3d_calc4: the patches of lines 232-255.                               *)
(***************************************************************************)
\* an f-string field {x:spec}: the text depends on the format and the value
Format(spec, x) == ToString(<<spec, x>>)

Patch(searchExp, replaceExp) == [searchExp |-> searchExp, replaceExp |-> replaceExp]

\* lines 232-243, in order
ParameterPatches(a) ==
    << Patch(<<"FLUX">>, <<"FLUX", " ", Format(".2e", a.flux), LF>>),
       Patch(<<"ENERGY">>, <<"ENERGY", " ", Format(".2f", a.energy), LF>>),
       Patch(<<"TYPE", " ", "GAUSSIAN">>, <<"TYPE", " ", a.beamType, LF>>),
       Patch(<<"FWHM">>, <<"FWHM", " ", Format(".1f", a.fwhmX), " ", Format(".1f", a.fwhmY), LF>>),
       Patch(<<"COLLIMATION">>,
             <<"COLLIMATION", " ", "RECTANGULAR", " ", Format(".1f", a.collimationX), " ",
               Format(".1f", a.collimationY), LF>>),
       Patch(<<"WEDGE">>, <<"WEDGE", " ", "0", " ", Format(".1f", a.wedge), LF>>),
       Patch(<<"EXPOSURETIME">>, <<"EXPOSURETIME", " ", Format(".3f", a.exposureTime), LF>>),
       Patch(<<"TRANSLATEPERDEGREE">>,
             <<"TRANSLATEPERDEGREE", " ", Format(".4f", a.translatePerDegX), " ",
               Format(".4f", a.translatePerDegY), " ", Format(".4f", a.translatePerDegZ), LF>>),
       Patch(<<"DIMENSION">>,
             <<"DIMENSION", " ", Format(".1f", a.dimX), " ", Format(".1f", a.dimY), " ",
               Format(".1f", a.dimZ), LF>>),
       Patch(<<"PIXELSPERMICRON">>,
             <<"PIXELSPERMICRON", " ", Format(".1f", a.pixelsPerMicron), LF>>),
       Patch(<<"ANGULARRESOLUTION">>,
             <<"ANGULARRESOLUTION", " ", Format(".1f", a.angularResolution), LF>>),
       Patch(<<"STARTOFFSET">>,
             <<"STARTOFFSET", " ", Format("f", a.startOffsetX), " ", Format("f", a.startOffsetY),
               " ", Format("f", a.startOffsetZ), LF>>) >>

RECURSIVE ApplyPatches(_, _, _)
\* successive rd3d_replaceLine calls on the input file; the first exception ends them
ApplyPatches(raw, patches, sep) ==
    IF patches = <<>> THEN [content |-> raw, raised |-> NoError]
    ELSE LET r == rd3d_replaceLine(raw, Head(patches).searchExp, Head(patches).replaceExp, sep)
         IN  IF r.raised # NoError THEN r
             ELSE ApplyPatches(r.content, Tail(patches), sep)

PdbLine(ref) == <<"PDB", " ">> \o ref \o <<LF>>

\* mutant: a reference that is no .pdb path goes straight to the default
ResolvePdbReference_noCheck(pdb, net) ==
    LET pdb_file == join(BinDir, pdb)
    IN  IF verify_pdb_file(pdb_file)
        THEN [checked |-> FALSE, raised |-> NoError, choice |-> "local", line |-> PdbLine(pdb_file)]
        ELSE IF ~endswith(pdb_file, <<".pdb">>)
        THEN [checked |-> FALSE, raised |-> NoError, choice |-> "default",
              line |-> PdbLine(DefaultPdb)]
        ELSE LET c == verify_pdb_code(pdb, net)
             IN  IF c.raised # NoError
                 THEN [checked |-> TRUE, raised |-> c.raised, choice |-> "none", line |-> <<>>]
                 ELSE IF c.exists
                 THEN [checked |-> TRUE, raised |-> NoError, choice |-> "code", line |-> PdbLine(pdb)]
                 ELSE [checked |-> TRUE, raised |-> NoError, choice |-> "default",
                       line |-> PdbLine(DefaultPdb)]

\* the if / elif / else of lines 246-255: whether verify_pdb_code was called,
\* the exception it let through, and the PDB line chosen
ResolvePdbReference(pdb, net) ==
    LET pdb_file == join(BinDir, pdb)
    IN  IF verify_pdb_file(pdb_file)
        THEN [checked |-> FALSE, raised |-> NoError, choice |-> "local", line |-> PdbLine(pdb_file)]
        ELSE LET c == verify_pdb_code(pdb, net)
             IN  IF c.raised # NoError
                 THEN [checked |-> TRUE, raised |-> c.raised, choice |-> "none", line |-> <<>>]
                 ELSE IF c.exists
                 THEN [checked |-> TRUE, raised |-> NoError, choice |-> "code", line |-> PdbLine(pdb)]
                 ELSE [checked |-> TRUE, raised |-> NoError, choice |-> "default",
                       line |-> PdbLine(DefaultPdb)]

(***************************************************************************)
(* The state of a session: the fields, the working directory, the window.  *)
(***************************************************************************)
MaxClicks == 2

DefaultTexts ==
    [flux |-> <<"5", "1", "2">>, energy |-> <<"1", "2", ".", "5">>,
     beamsizeV |-> <<"3", ".", "0">>, beamsizeH |-> <<"5", ".", "0">>,
     xtalSizeV |-> <<"-", "1">>, xtalSizeB |-> <<"-", "1">>,
     oscRange |-> <<"1", "8", "0">>, oscWidth |-> <<"0", ".", "5">>,
     exposureTimeFrame |-> <<"0", ".", "2", "5">>, vectorL |-> <<"5", "0">>,
     pdb |-> <<"2vb1", ".pdb">>, templateFileName |-> <<"rd3d_input_template.txt">>,
     verbose |-> <<"False">>]

Edit(field, text) == [field |-> field, text |-> text]

\* texts float() rejects, and a blank one
InvalidTexts == { <<" ">>, <<"1", ",", "5">> }

Edits ==
    { Edit(f, t) : f \in NumericFields, t \in InvalidTexts }
    \cup { Edit("flux", <<"-", "1">>), Edit("oscRange", <<"0">>), Edit("oscWidth", <<"0">>),
           Edit("energy", <<" ", "8", " ">>),
           Edit("pdb", <<"1abc">>), Edit("pdb", <<"notes", ".txt">>),
           Edit("pdb", <<"/", "home", "/", "own", ".pdb">>), Edit("pdb", <<"locked", ".pdb">>),
           Edit("templateFileName", <<"no_pdb_line.txt">>),
           Edit("templateFileName", <<"two_beams.txt">>),
           Edit("templateFileName", <<"missing.txt">>) }

\* what the fields hold when Calculate is clicked: the defaults, the defaults
\* with one field edited, and two combinations of two edits
FieldInputs ==
    {DefaultTexts}
    \cup { [DefaultTexts EXCEPT ![e.field] = e.text] : e \in Edits }
    \cup { [DefaultTexts EXCEPT !["vectorL"] = <<>>, !["energy"] = <<"k">>],
           [DefaultTexts EXCEPT !["pdb"] = <<"1abc">>,
                                !["templateFileName"] = <<"no_pdb_line.txt">>] }

NoFile == [run |-> -1, kind |-> "none"]

\* the working directory before the session: not there yet, or left by an
\* earlier session (run 0) with its output files
FreshDisk == [workDir |-> FALSE, input |-> Absent, log |-> Absent,
              summaryCsv |-> NoFile, summaryTxt |-> NoFile]
UsedDisk == [workDir |-> TRUE, input |-> BundledTemplate, log |-> <<0>>,
             summaryCsv |-> [run |-> 0, kind |-> "good"],
             summaryTxt |-> [run |-> 0, kind |-> "good"]]

\* how a simulator run ends: its exit status and the files it wrote
SimOutcomes ==
    { [exit |-> 0, csv |-> "good", txt |-> "good"],
      [exit |-> 0, csv |-> "good", txt |-> "none"],
      [exit |-> 0, csv |-> "good", txt |-> "malformed"],
      [exit |-> 0, csv |-> "malformed", txt |-> "good"],
      [exit |-> 1, csv |-> "none", txt |-> "none"] }

NoRun == [id |-> 0, pdb |-> <<>>, resolved |-> FALSE, checked |-> FALSE, net |-> "none",
          choice |-> "none", pdbLine |-> <<>>, launched |-> FALSE, exit |-> -1,
          summaryRead |-> FALSE, result |-> -1, raised |-> NoError, plotted |-> FALSE]

NoClick == [seq |-> 0, texts |-> DefaultTexts]

EmptyGui == [result_value |-> <<>>, log_content |-> <<>>, histogram |-> -1]

SessionIdle ==
    /\ pc = "idle"
    /\ pending = 0
    /\ clicks = 0
    /\ disk = FreshDisk
    /\ gui = EmptyGui
    /\ run = NoRun
    /\ handled = NoClick
    /\ active = 0
    /\ escaped = NoError

NoCall == [done |-> FALSE, before |-> <<>>, searchExp |-> <<>>,
           replaceExp |-> <<>>, raised |-> NoError]

PatchIdle ==
    /\ file = <<>>
    /\ call = NoCall

(***************************************************************************)
(* rd3d_parse_dose_histogram (lines 807-829).  A summary text is a         *)
(* sequence of tokens, each token a sequence of characters: a word, a run  *)
(* of whitespace, or a maximal run of digits and dots.                     *)
(***************************************************************************)
\* the width of the 'range' field of the structured dtype, line 816
RangeWidth == 20

\* \s+
IsSpace(tok) == tok # <<>> /\ \A i \in 1..Len(tok) : tok[i] \in {" ", LF}

\* \d+
IsInt(tok) == tok # <<>> /\ \A i \in 1..Len(tok) : tok[i] \in Digits

\* [\d.]+
IsNum(tok) == tok # <<>> /\ \A i \in 1..Len(tok) : tok[i] \in Digits \cup {"."}

\* the alternative 'to\s+([\d.]+)\s+MGy' of the pattern of line 813, tried at token i
MatchesClosed(text, i) ==
    /\ i + 14 <= Len(text)
    /\ text[i] = <<"Bin">> /\ IsSpace(text[i + 1]) /\ IsInt(text[i + 2])
    /\ text[i + 3] = <<",">> /\ IsSpace(text[i + 4]) /\ IsNum(text[i + 5])
    /\ IsSpace(text[i + 6]) /\ text[i + 7] = <<"to">> /\ IsSpace(text[i + 8])
    /\ IsNum(text[i + 9]) /\ IsSpace(text[i + 10]) /\ text[i + 11] = <<"MGy">>
    /\ text[i + 12] = <<":">> /\ IsSpace(text[i + 13]) /\ IsNum(text[i + 14])

\* the alternative 'MGy upwards', with its single blank
MatchesOpen(text, i) ==
    /\ i + 12 <= Len(text)
    /\ text[i] = <<"Bin">> /\ IsSpace(text[i + 1]) /\ IsInt(text[i + 2])
    /\ text[i + 3] = <<",">> /\ IsSpace(text[i + 4]) /\ IsNum(text[i + 5])
    /\ IsSpace(text[i + 6]) /\ text[i + 7] = <<"MGy">> /\ text[i + 8] = <<" ">>
    /\ text[i + 9] = <<"upwards">>
    /\ text[i + 10] = <<":">> /\ IsSpace(text[i + 11]) /\ IsNum(text[i + 12])

\* the four groups of the match at token i; the third is empty for the open bin
Groups(text, i) ==
    IF MatchesClosed(text, i)
    THEN <<text[i + 2], text[i + 5], text[i + 9], text[i + 14]>>
    ELSE <<text[i + 2], text[i + 5], <<>>, text[i + 12]>>

\* re.findall: the matches from left to right.  A match holds the word Bin
\* only as its first token, so no two matches overlap.
findall(text) ==
    LET starts == SelectSeq(Indices(text),
                            LAMBDA i : MatchesClosed(text, i) \/ MatchesOpen(text, i))
    IN  [k \in 1..Len(starts) |-> Groups(text, starts[k])]

\* the chars of "to" and "upwards" between blanks
ToWord == <<" ", "t", "o", " ">>
UpwardsWord == <<" ", "u", "p", "w", "a", "r", "d", "s">>

\* lines 822-825
BinRange(item) ==
    IF item[3] # <<>> THEN item[2] \o ToWord \o item[3] ELSE item[2] \o UpwardsWord

\* storing a string in a field of RangeWidth characters keeps its first RangeWidth
Stored(str) == SubSeq(str, 1, IF Len(str) < RangeWidth THEN Len(str) ELSE RangeWidth)

FloatError(str) ==
    [type |-> "ValueError", msg |-> <<"could not convert string to float: ">> \o str]

NoEntries == <<>>

\* rd3d_parse_dose_histogram on the text read from the file: the exception of
\* the first float() that fails (line 827), or the array returned
rd3d_parse_dose_histogram(text) ==
    LET histogram_data == findall(text)
        bad == SelectSeq(histogram_data, LAMBDA item : ~ParseFloat(item[4]).ok)
    IN  IF bad # <<>> THEN [raised |-> FloatError(bad[1][4]), entries |-> NoEntries]
        ELSE [raised |-> NoError,
              entries |-> [i \in 1..Len(histogram_data) |->
                             [bin |-> DecimalValue(histogram_data[i][1]),
                              range |-> Stored(BinRange(histogram_data[i])),
                              percentage |-> ParseFloat(histogram_data[i][4]).value]]]

NotParsed == [done |-> FALSE, pieces |-> <<>>, text |-> <<>>,
              raised |-> NoError, entries |-> NoEntries]

ParseIdle == parse = NotParsed

(***************************************************************************)
(* SpecPatch: rd3d_replaceLine on every small file.                        *)
(***************************************************************************)
MaxFileLen == 5

PatchChars == {"a", "b", LF, CR}

RawFiles == UNION { [1..n -> PatchChars] : n \in 0..MaxFileLen }

PatchKeywords == { <<"a">>, <<"b">>, <<"a", "b">>, <<"b", "a">> }

PatchReplacements == { <<"b", LF>>, <<"a", "a", LF>>, <<"a">>, <<"b", LF, "a", LF>> }

InitPatch ==
    /\ file \in RawFiles
    /\ linesep \in LineSeps
    /\ call = NoCall
    /\ DeriveIdle
    /\ SessionIdle
    /\ ParseIdle

ReplaceLine ==
    /\ ~call.done
    /\ \E searchExp \in PatchKeywords, replaceExp \in PatchReplacements :
         LET r == rd3d_replaceLine(file, searchExp, replaceExp, linesep)
         IN  /\ file' = r.content
             /\ call' = [done |-> TRUE, before |-> file, searchExp |-> searchExp,
                         replaceExp |-> replaceExp, raised |-> r.raised]
    /\ UNCHANGED <<linesep, deriveVars, sessionVars, parseVars>>

NextPatch == ReplaceLine

SpecPatch == InitPatch /\ [][NextPatch]_vars

\* the lines the last call read, and which of them start with its keyword
BeforeLines == readlines(call.before)
Matching == {i \in 1..Len(BeforeLines) : startswith(BeforeLines[i], call.searchExp)}
FirstMatching == CHOOSE i \in Matching : \A j \in Matching : i <= j

\* a replacement that is one line ending in "\n"
SingleLine(replaceExp) ==
    /\ replaceExp # <<>>
    /\ FirstLF(replaceExp) = Len(replaceExp)

Names(msg, searchExp) ==
    \E i \in 1..Len(msg) :
        /\ i + Len(searchExp) - 1 <= Len(msg)
        /\ SubSeq(msg, i, i + Len(searchExp) - 1) = searchExp

\* C2 (as claimed): when no line starts with the keyword the call fails with
\* an error naming the keyword and the file content is what it was before.
C2_FailureLeavesFileUnmodified ==
    (call.done /\ Matching = {}) =>
        /\ call.raised.type = "ValueError"
        /\ Names(call.raised.msg, call.searchExp)
        /\ file = call.before

Lengths == { Num(0, 0), Num(1, 0), Num(2, 0), Num(25, 1), Num(50, 0) }
Angles == { Num(0, 0), Num(1, 0), Num(49, 0), Num(107, 1), Num(180, 0) }
Widths == { Num(0, 0), Num(1, 1), Num(49, 0) }
BeamSizes == { Num(1, 0), Num(3, 1), Num(2, 0), Num(3, 0), Num(5, 0) }
XtalSizes == { MinusOne, Num(4, 0) }
Fluxes == { MinusOne, Num(1000000000, 0) }

ParameterSets ==
    { [flux |-> fl, energy |-> Num(25, 1),
       beamsizeV |-> bv, beamsizeH |-> bh,
       xtalSizeV |-> xv, xtalSizeB |-> xb,
       oscRange |-> r, oscWidth |-> w, exposureTimeFrame |-> Num(1, 2),
       vectorL |-> l,
       pdb |-> <<"2vb1", ".pdb">>, templateFileName |-> <<"rd3d_input_template.txt">>,
       verbose |-> FALSE] :
        fl \in Fluxes, bv \in BeamSizes, bh \in BeamSizes,
        xv \in XtalSizes, xb \in XtalSizes, r \in Angles, w \in Widths, l \in Lengths }

InitDerive ==
    /\ values \in ParameterSets
    /\ epics \in EpicsStates
    /\ derived = NotDerived
    /\ linesep = <<LF>>
    /\ PatchIdle
    /\ SessionIdle
    /\ ParseIdle

Derive ==
    /\ derived = NotDerived
    /\ derived' = fmx_dose4(values, epics)
    /\ UNCHANGED <<values, epics, linesep, patchVars, sessionVars, parseVars>>

NextDerive == Derive

SpecDerive == InitDerive /\ [][NextDerive]_vars

Derived == derived.args # NoArgs

\* d is the double x or one of the two doubles next to it
WithinRounding(d, x) ==
    LET dx == ToDouble(x)
    IN  IF dx = DZero THEN d = DZero
        ELSE d \in {dx, NextAway(dx), NextToZero(dx)}

\* C10 (as amended): with oscRange > 0, translatePerDegY * oscRange is
\* vectorL up to one rounding step of a double (vectorL itself or a double
\* next to it), and the translation rates on X and Z are zero.
C10_RateTimesRangeIsLengthRounded ==
    (Derived /\ NumLess(Num(0, 0), values.oscRange)) =>
        /\ WithinRounding(FMul(derived.args.translatePerDegY, values.oscRange),
                          values.vectorL)
        /\ derived.args.translatePerDegX = Num(0, 0)
        /\ derived.args.translatePerDegZ = Num(0, 0)

\* C10 witness: a derivation whose product is not exactly the vector length
C10_Witness ==
    /\ Derived
    /\ NumLess(Num(0, 0), values.oscRange)
    /\ values.vectorL = Num(1, 0)
    /\ values.oscRange = Num(49, 0)
    /\ FMul(derived.args.translatePerDegY, values.oscRange) = NextToZero(ToDouble(Num(1, 0)))

\* C10 (as claimed): with oscRange > 0, translatePerDegY * oscRange equals
\* vectorL, and the translation rates on X and Z are zero.
C10_RateTimesRangeIsLength ==
    (Derived /\ NumLess(Num(0, 0), values.oscRange)) =>
        /\ FMul(derived.args.translatePerDegY, values.oscRange) = ToDouble(values.vectorL)
        /\ derived.args.translatePerDegX = Num(0, 0)
        /\ derived.args.translatePerDegZ = Num(0, 0)


(***************************************************************************)
(* Spec: a session of the main window.  The Qt event loop (app.exec_(),    *)
(* line 843) runs one handler at a time; clicks made while a handler runs  *)
(* wait in the event queue.  on_calc_button_clicked is followed through    *)
(* fmx_dose4 and rd3d_calc4 step by step, one step per effect on the       *)
(* files, the network or the simulator process.                            *)
(***************************************************************************)
Init ==
    /\ pc = "idle"
    /\ pending = 0
    /\ clicks = 0
    /\ disk \in {FreshDisk, UsedDisk}
    /\ gui = EmptyGui
    /\ run = NoRun
    /\ handled = NoClick
    /\ active = 0
    /\ escaped = NoError
    /\ linesep \in LineSeps
    /\ PatchIdle
    /\ DeriveIdle
    /\ ParseIdle

\* mutant: the event loop also dispatches while the simulator runs
EventLoopIdle_whileRunning == pc \in {"idle", "running"}

\* the event loop dispatches the next event only when no handler is running
EventLoopIdle == pc = "idle"

\* the user clicks Calculate: the click waits in the event queue
ClickCalculate ==
    /\ pc # "aborted"
    /\ clicks < MaxClicks
    /\ clicks' = clicks + 1
    /\ pending' = pending + 1
    /\ UNCHANGED <<pc, disk, gui, run, handled, active, escaped, linesep,
                   patchVars, deriveVars, parseVars>>

\* the except clause of lines 759-761
Caught(e) ==
    /\ gui' = [gui EXCEPT !.result_value = <<"Error: ">> \o e.msg]
    /\ pc' = "idle"

\* on_calc_button_clicked, lines 725-750: validation of the fields
on_calc_button_clicked ==
    /\ EventLoopIdle
    /\ pending > 0
    /\ pending' = pending - 1
    /\ \E texts \in FieldInputs :
         LET v == Validate(texts)
         IN  /\ handled' = [seq |-> handled.seq + 1, texts |-> texts]
             /\ run' = [NoRun EXCEPT !.id = handled.seq + 1]
             /\ IF v.error # <<>>
                THEN /\ gui' = [gui EXCEPT !.result_value = v.error]
                     /\ pc' = "idle"
                     /\ UNCHANGED values
                ELSE /\ values' = v.values
                     /\ pc' = "fmx_dose4"
                     /\ UNCHANGED gui
    /\ escaped' = NoError
    /\ UNCHANGED <<clicks, disk, active, linesep, patchVars, epics, derived, parseVars>>

\* mutant: the working directory and the log are set up before the derivation
DeriveParameters_afterSetup ==
    /\ pc = "fmx_dose4"
    /\ \E src \in (IF values.flux = MinusOne THEN EpicsStates ELSE {epics}) :
         LET d == fmx_dose4(values, src)
         IN  /\ epics' = src
             /\ derived' = d
             /\ disk' = [disk EXCEPT !.workDir = TRUE, !.log = <<>>]
             /\ IF d.raised # NoError
                THEN /\ Caught(d.raised)
                     /\ run' = [run EXCEPT !.raised = d.raised]
                ELSE /\ pc' = "rd3d_calc4"
                     /\ UNCHANGED <<gui, run>>
    /\ UNCHANGED <<pending, clicks, handled, active, escaped, linesep,
                   patchVars, values, parseVars>>

\* fmx_dose4, lines 384-422: flux lookup and derivation
DeriveParameters ==
    /\ pc = "fmx_dose4"
    /\ \E src \in (IF values.flux = MinusOne THEN EpicsStates ELSE {epics}) :
         LET d == fmx_dose4(values, src)
         IN  /\ epics' = src
             /\ derived' = d
             /\ IF d.raised # NoError
                THEN /\ Caught(d.raised)
                     /\ run' = [run EXCEPT !.raised = d.raised]
                ELSE /\ pc' = "rd3d_calc4"
                     /\ UNCHANGED <<gui, run>>
    /\ UNCHANGED <<pending, clicks, disk, handled, active, escaped, linesep,
                   patchVars, values, parseVars>>

\* mutant: the template is copied only when there is no input file yet
CopyTemplate_onlyIfMissing ==
    /\ pc = "rd3d_calc4"
    /\ LET template == TemplateContent(derived.args.templateFileName)
           e == FileNotFoundError(join(BinDir, derived.args.templateFileName))
       IN  IF template = Absent
           THEN /\ disk' = [disk EXCEPT !.workDir = TRUE]
                /\ Caught(e)
                /\ run' = [run EXCEPT !.raised = e]
                /\ UNCHANGED active
           ELSE /\ disk' = [disk EXCEPT !.workDir = TRUE,
                                        !.input = IF @ = Absent THEN template ELSE @,
                                        !.log = <<>>]
                /\ pc' = "patch"
                /\ active' = active + 1
                /\ UNCHANGED <<gui, run>>
    /\ UNCHANGED <<pending, clicks, handled, escaped, linesep, patchVars, deriveVars, parseVars>>

\* rd3d_calc4, lines 214-230: working directory, copy of the template, log
CopyTemplate ==
    /\ pc = "rd3d_calc4"
    /\ LET template == TemplateContent(derived.args.templateFileName)
           e == FileNotFoundError(join(BinDir, derived.args.templateFileName))
       IN  IF template = Absent
           THEN /\ disk' = [disk EXCEPT !.workDir = TRUE]
                /\ Caught(e)
                /\ run' = [run EXCEPT !.raised = e]
                /\ UNCHANGED active
           ELSE /\ disk' = [disk EXCEPT !.workDir = TRUE, !.input = template, !.log = <<>>]
                /\ pc' = "patch"
                /\ active' = active + 1
                /\ UNCHANGED <<gui, run>>
    /\ UNCHANGED <<pending, clicks, handled, escaped, linesep, patchVars, deriveVars, parseVars>>

\* rd3d_calc4, lines 232-243: the twelve parameter lines
PatchParameters ==
    /\ pc = "patch"
    /\ LET r == ApplyPatches(disk.input, ParameterPatches(derived.args), linesep)
       IN  /\ disk' = [disk EXCEPT !.input = r.content]
           /\ IF r.raised # NoError
              THEN /\ Caught(r.raised)
                   /\ run' = [run EXCEPT !.raised = r.raised]
                   /\ active' = active - 1
              ELSE /\ pc' = "pdb"
                   /\ UNCHANGED <<gui, run, active>>
    /\ UNCHANGED <<pending, clicks, handled, escaped, linesep, patchVars, deriveVars, parseVars>>

\* rd3d_calc4, lines 245-255: the structure reference and the PDB line
ResolvePdb ==
    /\ pc = "pdb"
    /\ \E net \in (IF verify_pdb_file(join(BinDir, derived.args.pdb))
                   THEN {"none"} ELSE NetOutcomes) :
         LET res == ResolvePdbReference(derived.args.pdb, net)
             r   == IF res.raised # NoError
                    THEN [content |-> disk.input, raised |-> res.raised]
                    ELSE rd3d_replaceLine(disk.input, <<"PDB">>, res.line, linesep)
         IN  /\ disk' = [disk EXCEPT !.input = r.content]
             /\ run' = [run EXCEPT !.pdb = derived.args.pdb, !.resolved = TRUE,
                                   !.checked = res.checked,
                                   !.net = IF res.checked THEN net ELSE "none",
                                   !.choice = res.choice, !.pdbLine = res.line,
                                   !.raised = r.raised]
             /\ IF r.raised # NoError
                THEN /\ Caught(r.raised)
                     /\ active' = active - 1
                ELSE /\ pc' = "launch"
                     /\ UNCHANGED <<gui, active>>
    /\ UNCHANGED <<pending, clicks, handled, escaped, linesep, patchVars, deriveVars, parseVars>>

\* rd3d_calc4, lines 260-262: subprocess.run starts java and waits for it
LaunchSimulator ==
    /\ pc = "launch"
    /\ pc' = "running"
    /\ run' = [run EXCEPT !.launched = TRUE]
    /\ UNCHANGED <<pending, clicks, disk, gui, handled, active, escaped, linesep,
                   patchVars, deriveVars, parseVars>>

\* the simulator process ends and subprocess.run returns; no check=True and
\* no look at prc.returncode follow
SimulatorExits ==
    /\ pc = "running"
    /\ \E o \in SimOutcomes :
         /\ disk' = [disk EXCEPT
                       !.summaryCsv = IF o.csv = "none" THEN @
                                      ELSE [run |-> run.id, kind |-> o.csv],
                       !.summaryTxt = IF o.txt = "none" THEN @
                                      ELSE [run |-> run.id, kind |-> o.txt]]
         /\ run' = [run EXCEPT !.exit = o.exit]
    /\ pc' = "output"
    /\ UNCHANGED <<pending, clicks, gui, handled, active, escaped, linesep,
                   patchVars, deriveVars, parseVars>>

SummaryMissing == [type |-> "OSError", msg |-> <<"rd3d_Summary.csv not found.">>]
SummaryMalformed == [type |-> "ValueError", msg |-> <<"no field of name Average_DWD">>]

\* rd3d_calc4, lines 264-274, and fmx_dose4, lines 438-443: the log entry,
\* then np.genfromtxt on rd3d_Summary.csv, whatever the exit status was
ReadOutput ==
    /\ pc = "output"
    /\ disk' = [disk EXCEPT !.log = Append(@, run.id)]
    /\ active' = active - 1
    /\ LET e == IF disk.summaryCsv.kind = "none" THEN SummaryMissing
                ELSE IF disk.summaryCsv.kind = "malformed" THEN SummaryMalformed
                ELSE NoError
       IN  IF e # NoError
           THEN /\ Caught(e)
                /\ run' = [run EXCEPT !.summaryRead = TRUE, !.raised = e]
           ELSE /\ pc' = "show"
                /\ run' = [run EXCEPT !.summaryRead = TRUE, !.result = disk.summaryCsv.run]
                /\ UNCHANGED gui
    /\ UNCHANGED <<pending, clicks, handled, escaped, linesep, patchVars, deriveVars, parseVars>>

\* str(result): the dose, which here is the number of the run that wrote it
DoseText(result) == <<ToString(result)>>

\* on_calc_button_clicked, lines 754-763: the log and the dose are shown
ShowResult ==
    /\ pc = "show"
    /\ gui' = [gui EXCEPT !.log_content = disk.log, !.result_value = DoseText(run.result)]
    /\ pc' = "plot_histogram"
    /\ UNCHANGED <<pending, clicks, disk, run, handled, active, escaped, linesep,
                   patchVars, deriveVars, parseVars>>

HistogramMissing == FileNotFoundError(<<"rd3d_Summary.txt">>)
HistogramMalformed == [type |-> "ValueError", msg |-> <<"could not convert string to float">>]

\* line 766, plot_histogram (lines 831-835): outside the try of lines 752-761,
\* so what it raises leaves the handler; PyQt then either ends the
\* application (qFatal, PyQt >= 5.5) or prints the traceback and goes on
plot_histogram ==
    /\ pc = "plot_histogram"
    /\ LET e == IF disk.summaryTxt.kind = "none" THEN HistogramMissing
                ELSE IF disk.summaryTxt.kind = "malformed" THEN HistogramMalformed
                ELSE NoError
       IN  IF e # NoError
           THEN /\ escaped' = e
                /\ pc' \in {"idle", "aborted"}
                /\ UNCHANGED <<gui, run>>
           ELSE /\ gui' = [gui EXCEPT !.histogram = disk.summaryTxt.run]
                /\ run' = [run EXCEPT !.plotted = TRUE]
                /\ pc' = "idle"
                /\ UNCHANGED escaped
    /\ UNCHANGED <<pending, clicks, disk, handled, active, linesep, patchVars, deriveVars, parseVars>>

Next ==
    \/ ClickCalculate
    \/ on_calc_button_clicked
    \/ DeriveParameters
    \/ CopyTemplate
    \/ PatchParameters
    \/ ResolvePdb
    \/ LaunchSimulator
    \/ SimulatorExits
    \/ ReadOutput
    \/ ShowResult
    \/ plot_histogram

Spec == Init /\ [][Next]_vars

\* C4 (as claimed): when the simulator exited with a non-zero status, the run
\* never reads rd3d_Summary.csv and, once rd3d_calc4 is left, it was left by
\* an exception.
C4_NonZeroExitIsRunFailure ==
    (run.exit > 0) =>
        /\ ~run.summaryRead
        /\ (pc # "output" => run.raised # NoError)

\* the path rd3d_calc4 tests the structure reference under does not end in .pdb
NonPdbReference == ~endswith(join(BinDir, run.pdb), <<".pdb">>)

\* the input file holds the line
InputHolds(line) == \E i \in 1..Len(readlines(disk.input)) : readlines(disk.input)[i] = line

TemplateHasPdbLine ==
    LET lines == readlines(TemplateContent(values.templateFileName))
    IN  \E i \in 1..Len(lines) : startswith(lines[i], <<"PDB">>)

\* C6 (as claimed): when the reference is no openable local .pdb file and the
\* registry does not confirm it (it answers negatively or the request fails),
\* the PDB line is patched with the default and the simulator is launched.
C6_UnresolvedReferenceFallsBack ==
    (run.resolved /\ run.checked /\ run.net # "200" /\ TemplateHasPdbLine) =>
        /\ run.pdbLine = PdbLine(DefaultPdb)
        /\ InputHolds(PdbLine(DefaultPdb))
        /\ (pc = "launch" \/ run.launched)

\* C7: the handler invocation that finds a numeric field empty or not a
\* number shows an error and returns in that same step, with no file, no
\* working directory and no process touched.
C7_InvalidFieldStopsBeforeIO ==
    [][ (handled'.seq # handled.seq /\ BadFields(handled'.texts) # {}) =>
            /\ disk' = disk
            /\ active' = active
            /\ ~run'.launched
            /\ pc' = "idle"
            /\ Head(gui'.result_value) \in {"Error: ", "Error: Invalid input in "}
      ]_vars

\* C7 witness: a click with an unparseable vectorL was handled on a machine
\* that has no working directory yet
C7_Witness ==
    /\ handled.seq = 1
    /\ BadFields(handled.texts) = {10}
    /\ pc = "idle"
    /\ disk = FreshDisk
    /\ gui.result_value = <<"Error: Invalid input in ", "vectorL", " field.">>

\* C8 (as claimed): after a run whose simulation and summary parse succeeded,
\* no exception leaves the handler and the session goes on, even when the
\* histogram step failed.
C8_HistogramFailureContained ==
    (run.exit = 0 /\ run.summaryRead /\ run.raised = NoError) =>
        /\ escaped = NoError
        /\ pc # "aborted"

\* C9: at most one simulation run is in flight at any time, whatever the
\* clicks: between the copy of the template and the reading of the output of
\* one run no other run has started.
C9_AtMostOneRunInFlight == active <= 1

\* C9 witness: a click is waiting in the queue while the simulator runs
C9_Witness ==
    /\ pc = "running"
    /\ pending >= 1
    /\ active = 1

(***************************************************************************)
(* Properties of the derivation, checked under SpecDerive.                 *)
(***************************************************************************)
\* min(x, y) of two dyadic numbers
NumMin(x, y) == IF NumLess(y, x) THEN y ELSE x

\* the tier of a beam dimension: 2 below 1.5, 1 from 1.5 and below 3.0, else 0.5
Tier(size) ==
    IF NumLess(size, Num(3, 1)) THEN Num(2, 0)
    ELSE IF NumLess(size, Num(3, 0)) THEN Num(1, 0)
    ELSE Num(1, 1)

\* C11: the pixelsPerMicron fmx_dose4 passes on is the tier of the smaller of
\* beamsizeV and beamsizeH: 2 when min < 1.5, 1 when 1.5 <= min < 3.0, 0.5
\* otherwise, the boundary values 1.5 and 3.0 included.
C11_PixelsPerMicronFollowsSmallerSize ==
    Derived =>
        derived.args.pixelsPerMicron = Tier(NumMin(values.beamsizeV, values.beamsizeH))

\* C11 witness: one axis on the boundary 1.5, the other on the boundary 3.0
C11_Witness ==
    /\ Derived
    /\ values.beamsizeV = Num(3, 1)
    /\ values.beamsizeH = Num(3, 0)
    /\ derived.args.pixelsPerMicron = Num(1, 0)

\* C12: dimX is xtalSizeV, or beamsizeV when xtalSizeV is -1; dimZ is
\* xtalSizeB, or the dimX so resolved when xtalSizeB is -1.
C12_CrystalDimensionsResolved ==
    Derived =>
        /\ derived.args.dimX = (IF values.xtalSizeV = MinusOne
                                THEN values.beamsizeV ELSE values.xtalSizeV)
        /\ derived.args.dimZ = (IF values.xtalSizeB = MinusOne
                                THEN derived.args.dimX ELSE values.xtalSizeB)
        /\ (values.xtalSizeV = MinusOne /\ values.xtalSizeB = MinusOne)
              => derived.args.dimZ = values.beamsizeV
        /\ (values.xtalSizeV # MinusOne /\ values.xtalSizeB = MinusOne)
              => derived.args.dimZ = values.xtalSizeV

\* C12 witness: xtalSizeV given, xtalSizeB left at -1, beam size different
C12_Witness ==
    /\ Derived
    /\ values.xtalSizeV = Num(4, 0)
    /\ values.xtalSizeB = MinusOne
    /\ values.beamsizeV = Num(2, 0)
    /\ derived.args.dimZ = Num(4, 0)

\* fmx_dose4 got past its two divisions or stopped before them
DivisorsNonZero == values.oscRange.n # 0 /\ values.oscWidth.n # 0

\* C13 (as claimed): a flux other than -1 is passed on verbatim; with flux = -1
\* the live value is passed on, or the numeric fallback whenever the lookup
\* is absent, raises or returns no value, and the run goes on to rd3d_calc4.
C13_FluxFallbackKeepsRunGoing ==
    (derived # NotDerived /\ DivisorsNonZero) =>
        /\ derived.raised = NoError
        /\ derived.args.flux =
              (IF values.flux # MinusOne THEN values.flux
               ELSE IF epics = "value" THEN LiveFlux ELSE FallbackFlux)

(***************************************************************************)
(* SpecParse: rd3d_parse_dose_histogram on summary texts put together from *)
(* a few kinds of pieces.                                                  *)
(***************************************************************************)
MaxPieces == 3

Blank == <<" ">>
Newline == <<LF>>

\* the text 'Bin N, A to B MGy: P %' and a line break
ClosedBinText(n, a, b, p) ==
    << <<"Bin">>, Blank, n, <<",">>, Blank, a, Blank, <<"to">>, Blank, b, Blank,
       <<"MGy">>, <<":">>, Blank, p, Blank, <<"%">>, Newline >>

\* the text 'Bin N, A MGy upwards: P %' and a line break
OpenBinText(n, a, gap, p) ==
    << <<"Bin">>, Blank, n, <<",">>, Blank, a, Blank, <<"MGy">>, gap, <<"upwards">>,
       <<":">>, Blank, p, Blank, <<"%">>, Newline >>

Entry(bin, range, percentage) == [bin |-> bin, range |-> range, percentage |-> percentage]

\* a piece of a summary text, with the entries the histogram is to hold for it
Piece(text, expect) == [text |-> text, expect |-> expect]

Pieces ==
    { \* Bin 1, 0.0 to 5.0 MGy: 12.50 %
      Piece(ClosedBinText(<<"1">>, <<"0", ".", "0">>, <<"5", ".", "0">>,
                          <<"1", "2", ".", "5", "0">>),
            << Entry(1, <<"0", ".", "0">> \o ToWord \o <<"5", ".", "0">>, Num(25, 1)) >>),
      \* Bin 2, 5.0 MGy upwards: 87.50 %
      Piece(OpenBinText(<<"2">>, <<"5", ".", "0">>, Blank, <<"8", "7", ".", "5", "0">>),
            << Entry(2, <<"5", ".", "0">> \o UpwardsWord, Num(175, 1)) >>),
      \* Final Dose Histogram:
      Piece(<< <<"Final">>, Blank, <<"Dose">>, Blank, <<"Histogram">>, <<":">>, Newline >>,
            << >>),
      \* Bin 3, 5.0 MGy  upwards: 1.0 %     (two blanks: not of the form)
      Piece(OpenBinText(<<"3">>, <<"5", ".", "0">>, <<" ", " ">>, <<"1", ".", "0">>), << >>),
      \* Bin 1.5, 2 to 3 MGy: 1 %          (no bin number: not of the form)
      Piece(ClosedBinText(<<"1", ".", "5">>, <<"2">>, <<"3">>, <<"1">>), << >>),
      \* Bin 3, 1000000.0 to 2000000.0 MGy: 1.0 %
      Piece(ClosedBinText(<<"3">>, <<"1", "0", "0", "0", "0", "0", "0", ".", "0">>,
                          <<"2", "0", "0", "0", "0", "0", "0", ".", "0">>, <<"1", ".", "0">>),
            << Entry(3, <<"1", "0", "0", "0", "0", "0", "0", ".", "0">> \o ToWord
                        \o <<"2", "0", "0", "0", "0", "0", "0", ".", "0">>, Num(1, 0)) >>),
      \* Bin 4, 0.0 to 5.0 MGy: 12.5. %    (the sentence's full stop after P)
      Piece(ClosedBinText(<<"4">>, <<"0", ".", "0">>, <<"5", ".", "0">>,
                          <<"1", "2", ".", "5", ".">>),
            << Entry(4, <<"0", ".", "0">> \o ToWord \o <<"5", ".", "0">>, Num(25, 1)) >>) }

SummaryTexts == UNION { [1..n -> Pieces] : n \in 0..MaxPieces }

InitParse ==
    /\ \E pieces \in SummaryTexts :
         parse = [NotParsed EXCEPT !.pieces = pieces,
                                   !.text = Flatten([i \in 1..Len(pieces) |-> pieces[i].text])]
    /\ linesep = <<LF>>
    /\ PatchIdle
    /\ DeriveIdle
    /\ SessionIdle

ParseHistogram ==
    /\ ~parse.done
    /\ LET r == rd3d_parse_dose_histogram(parse.text)
       IN  parse' = [parse EXCEPT !.done = TRUE, !.raised = r.raised, !.entries = r.entries]
    /\ UNCHANGED <<linesep, patchVars, deriveVars, sessionVars>>

NextParse == ParseHistogram

SpecParse == InitParse /\ [][NextParse]_vars

\* the entries the pieces of the parsed text call for, in file order
ExpectedEntries == Flatten([i \in 1..Len(parse.pieces) |-> parse.pieces[i].expect])

\* C14 (as claimed): the parser returns, without raising, one entry per
\* fragment 'Bin N, A to B MGy: P' or 'Bin N, A MGy upwards: P', in file
\* order, labelled 'A to B' or 'A upwards'; other text is skipped and a text
\* with no such fragment gives the empty sequence.
C14_OneEntryPerFragmentInOrder ==
    parse.done =>
        /\ parse.raised = NoError
        /\ parse.entries = ExpectedEntries

(***************************************************************************)
(* Properties of a session, checked under Spec.                            *)
(***************************************************************************)
\* the input file a run makes of a pristine copy of its template: the twelve
\* parameter patches, then the PDB line the run chose
FreshInput ==
    LET patched == ApplyPatches(TemplateContent(values.templateFileName),
                                ParameterPatches(derived.args), linesep)
    IN  rd3d_replaceLine(patched.content, <<"PDB">>, run.pdbLine, linesep).content

\* C15: the input file handed to the simulator is what the current run's
\* patches make of a fresh copy of the current run's template, whatever the
\* earlier runs (complete or failed part-way) left in the working directory.
C15_InputDependsOnCurrentRunOnly ==
    (pc = "launch" \/ run.launched) => disk.input = FreshInput

\* C15 witness: the first run failed at its PDB patch and left its input
\* file behind (its error is still shown); the second run has been launched
C15_Witness ==
    /\ run.id = 2
    /\ run.launched
    /\ Len(gui.result_value) >= 3
    /\ gui.result_value[1] = "Error: "
    /\ gui.result_value[3] = "PDB"

\* the keywords rd3d_calc4 patches, in the order of lines 232-255
PatchedKeywords ==
    [i \in 1..12 |-> ParameterPatches(derived.args)[i].searchExp] \o << <<"PDB">> >>

\* the keywords no line of the current run's template starts with
MissingKeywords ==
    LET lines == readlines(TemplateContent(values.templateFileName))
    IN  SelectSeq(PatchedKeywords,
                  LAMBDA k : ~\E i \in 1..Len(lines) : startswith(lines[i], k))

\* the last handler invocation passed validation and derivation, went into
\* rd3d_calc4 with a template that exists, and has returned
RunEnded ==
    /\ handled.seq > 0
    /\ BadFields(handled.texts) = {}
    /\ pc = "idle"
    /\ derived # NotDerived
    /\ derived.raised = NoError
    /\ TemplateContent(values.templateFileName) # Absent

\* C16 (as claimed): when the template lacks a line for one of the patched
\* keywords, the run ends at that patch call with the error naming the
\* keyword shown, the simulator not launched and no output file parsed.
C16_MissingKeywordAbortsAtPatch ==
    (RunEnded /\ MissingKeywords # <<>>) =>
        /\ run.raised = KeywordNotFound(MissingKeywords[1])
        /\ Names(run.raised.msg, MissingKeywords[1])
        /\ gui.result_value = <<"Error: ">> \o run.raised.msg
        /\ ~run.launched
        /\ ~run.summaryRead

(***************************************************************************)
(* The beam path, checked under SpecDerive.  The position of the beam      *)
(* centre at an angle is startOffsetY + translatePerDegY * angle, taken    *)
(* exactly: translatePerDegY is the double fmx_dose4 computed.             *)
(***************************************************************************)
\* the exact product of a double and a non-negative dyadic number: all the
\* bits of the product, not rounded
ExactMul(d, b) ==
    IF d = DZero \/ b.n = 0 THEN DZero
    ELSE LET prod == Reverse(MulRev(Reverse(d.bits), Abs(b.n), 0))
         IN  [neg |-> d.neg # (b.n < 0), bits |-> prod,
              exp |-> d.exp + (Len(prod) - MantBits) - b.k]

\* x <= y for two non-negative binary numbers (bits from the leading one, and
\* the exponent of that bit)
BinLessEq(x, y) ==
    IF x = DZero THEN TRUE
    ELSE IF y = DZero THEN FALSE
    ELSE IF x.exp # y.exp THEN x.exp < y.exp
    ELSE LET len  == IF Len(x.bits) > Len(y.bits) THEN Len(x.bits) ELSE Len(y.bits)
             xb   == x.bits \o Zeros(len - Len(x.bits))
             yb   == y.bits \o Zeros(len - Len(y.bits))
             diff == {i \in 1..len : xb[i] # yb[i]}
         IN  diff = {} \/ xb[CHOOSE i \in diff : \A j \in diff : i <= j] = 0

\* the angles the path is looked at: its start, its middle and its end
PathAngles == {Num(0, 0), NumHalf(values.oscRange), values.oscRange}

\* how far the beam centre has moved from its start at an angle
Travel(angle) == ExactMul(derived.args.translatePerDegY, angle)

\* the travel that takes the beam centre from startOffsetY to vectorL / 2, and
\* the one that takes it to the edge dimY / 2 of the crystal
TravelToVectorEnd == NumAdd(NumHalf(values.vectorL), NumNeg(derived.args.startOffsetY))
TravelToCrystalEdge == NumAdd(NumHalf(derived.args.dimY), NumNeg(derived.args.startOffsetY))

\* the double after x, or zero for zero
StepAbove(x) == IF ToDouble(x) = DZero THEN DZero ELSE NextAway(ToDouble(x))

PathPreconditions ==
    /\ Derived
    /\ ~NumLess(values.vectorL, Num(0, 0))
    /\ ~NumLess(values.beamsizeH, Num(0, 0))
    /\ NumLess(Num(0, 0), values.oscRange)

C18_ShownDoseIsOfThisRun ==
    (run.summaryRead /\ run.raised = NoError /\ gui.result_value = DoseText(run.result)) =>
        run.result = run.id

\* the step in which fmx_dose4 runs for values with a zero oscRange or oscWidth
DerivesWithZeroDivisor ==
    /\ pc = "fmx_dose4"
    /\ pc' # "fmx_dose4"
    /\ (values.oscRange.n = 0 \/ values.oscWidth.n = 0)

\* C19: with valid numeric input and oscRange = 0 or oscWidth = 0, fmx_dose4
\* fails before rd3d_calc4 is entered: in that step no file and no directory
\* changes, no run starts, nothing is launched, and the handler returns with
\* an error shown in the result field (the division by zero, when the flux
\* is given).
C19_ZeroDivisorStopsBeforeRun ==
    [][ DerivesWithZeroDivisor =>
            /\ derived'.raised # NoError
            /\ (values.flux # MinusOne => derived'.raised = ZeroDivisionError)
            /\ disk' = disk
            /\ active' = active
            /\ ~run'.launched
            /\ pc' = "idle"
            /\ gui'.result_value = <<"Error: ">> \o derived'.raised.msg
      ]_vars

\* C19 witness: the first click, with oscWidth = 0, on a machine without a
\* working directory, has been handled
C19_Witness ==
    /\ handled.seq = 1
    /\ pc = "idle"
    /\ values # NoValues
    /\ values.oscWidth.n = 0
    /\ derived.raised = ZeroDivisionError
    /\ disk = FreshDisk
    /\ gui.result_value = <<"Error: ", "float division by zero">>

=============================================================================
